---- MODULE Spec2Model ----
(***************************************************************************)
(* Model of src/app.py, the FPL dashboard application: the three TTL       *)
(* caches (bootstrap dataset, per-player element summary, fixtures) as a   *)
(* state machine of request threads, and the pure shaping functions        *)
(* (to_float, build_player_payload, summarise_players,                     *)
(* build_upcoming_fixtures, build_player_history_payload) as operators.    *)
(*                                                                         *)
(* Time: `clock` is the reading of time.time().  Statements that do not    *)
(* block run in zero time; the clock advances only while every thread is   *)
(* outside a call, blocked on _cache_lock, or inside an HTTP fetch that    *)
(* has not yet used up the request timeout.                                *)
(***************************************************************************)
EXTENDS Integers, Sequences, FiniteSets, TLC

VARIABLES
    clock,              \* time.time()
    CACHE_TTL,          \* app.py:18, read from the environment at import
    PLAYER_CACHE_TTL,   \* app.py:19
    FIXTURES_CACHE_TTL, \* app.py:20
    cache,              \* _cache: [data, timestamp]
    cache_lock,         \* _cache_lock: the thread holding it, or NoThread
    player_cache,       \* _player_cache: player id -> data (None = no key)
    player_cache_meta,  \* _player_cache_meta: player id -> timestamp
    fixtures_cache,     \* _fixtures_cache: [data, timestamp]
    pc,                 \* per thread: position in the get_* function it runs
    op,                 \* per thread: the get_* function and its player_id
    now,                \* per thread: the local `now`
    fetch_start,        \* per thread: clock when its http_get began
    ret,                \* per thread: what its last call returned or raised
    fetched,            \* per thread: did its current call invoke the Fetcher
    seen,               \* per thread: the cache entry as it was at call entry
    calls,              \* number of get_* calls begun so far
    args,               \* argument of the pure function under check
    result              \* its result

cvars == <<clock, CACHE_TTL, PLAYER_CACHE_TTL, FIXTURES_CACHE_TTL, cache,
           cache_lock, player_cache, player_cache_meta, fixtures_cache, pc, op,
           now, fetch_start, ret, fetched, seen, calls>>
pvars == <<args, result>>
vars == <<cvars, pvars>>

\* ------------------------------------------------------------------ bounds
MaxClock == 1
MaxCalls == 2
MaxTTL == 1
\* REQUEST_TIMEOUT (app.py:21) in clock ticks: the longest an http_get lasts
MaxFetch == 1
\* the deeper bounds of the dataset-only specification
MaxDatasetClock == 3
MaxDatasetCalls == 4

Threads == {"t1", "t2"}
NoThread == "none"
PlayerIds == {"p1", "p2"}
TTLs == 0 .. MaxTTL

\* ------------------------------------------------------------------ values
\* Python's None
None == [t |-> "None"]
\* a parsed JSON body: `empty` says it is {} or [], `at` is the clock reading
\* at which the upstream answered (it identifies the upstream snapshot)
Body(e, c) == [t |-> "body", empty |-> e, at |-> c]
\* requests.RequestException raised out of a get_* call
FetchFailed == [t |-> "RequestException"]
NotReturned == [t |-> "running"]

\* bool(x) of a cached value: None, {} and [] are falsy
Truthy(x) == x.t = "body" /\ ~x.empty

Ops == {[fn |-> "get_bootstrap_data", player_id |-> "-"],
        [fn |-> "get_fixtures", player_id |-> "-"]}
       \cup {[fn |-> "get_element_summary", player_id |-> p] : p \in PlayerIds}
NoOp == [fn |-> "-", player_id |-> "-"]

\* the entry (value, fill timestamp) a call of `o` reads
Entry(o) ==
    CASE o.fn = "get_bootstrap_data" -> cache
      [] o.fn = "get_fixtures" -> fixtures_cache
      [] o.fn = "get_element_summary" ->
            [data |-> player_cache[o.player_id],
             timestamp |-> player_cache_meta[o.player_id]]
      [] OTHER -> [data |-> None, timestamp |-> 0]

TTLOf(o) ==
    CASE o.fn = "get_bootstrap_data" -> CACHE_TTL
      [] o.fn = "get_fixtures" -> FIXTURES_CACHE_TTL
      [] OTHER -> PLAYER_CACHE_TTL

\* ------------------------------------------------------------------ init
CacheInit ==
    /\ clock = 0
    /\ cache = [data |-> None, timestamp |-> 0]
    /\ cache_lock = NoThread
    /\ player_cache = [p \in PlayerIds |-> None]
    /\ player_cache_meta = [p \in PlayerIds |-> 0]
    /\ fixtures_cache = [data |-> None, timestamp |-> 0]
    /\ pc = [t \in Threads |-> "idle"]
    /\ op = [t \in Threads |-> NoOp]
    /\ now = [t \in Threads |-> 0]
    /\ fetch_start = [t \in Threads |-> 0]
    /\ ret = [t \in Threads |-> NotReturned]
    /\ fetched = [t \in Threads |-> FALSE]
    /\ seen = [t \in Threads |-> [data |-> None, timestamp |-> 0]]
    /\ calls = 0

Init ==
    /\ CacheInit
    /\ CACHE_TTL \in TTLs
    /\ PLAYER_CACHE_TTL \in TTLs
    /\ FIXTURES_CACHE_TTL \in TTLs
    /\ args = None
    /\ result = None

\* ------------------------------------------------------------------ calls
Outside(t) == pc[t] \in {"idle", "done", "failed"}

\* a request thread enters get_bootstrap_data / get_element_summary /
\* get_fixtures; the first statement reads the clock (lines 68, 83, 98)
BeginCall(t, o) ==
    /\ Outside(t)
    /\ calls' = calls + 1
    /\ op' = [op EXCEPT ![t] = o]
    /\ now' = [now EXCEPT ![t] = clock]
    /\ seen' = [seen EXCEPT ![t] = Entry(o)]
    /\ fetched' = [fetched EXCEPT ![t] = FALSE]
    /\ ret' = [ret EXCEPT ![t] = NotReturned]
    /\ pc' = [pc EXCEPT ![t] = "check"]
    /\ UNCHANGED <<clock, CACHE_TTL, PLAYER_CACHE_TTL, FIXTURES_CACHE_TTL, cache,
                   cache_lock, player_cache, player_cache_meta, fixtures_cache,
                   fetch_start, pvars>>

\* get_bootstrap_data, line 70
bootstrap_is_stale(t) ==
    ~Truthy(cache.data) \/ (now[t] - cache.timestamp > CACHE_TTL)

\* get_bootstrap_data_lock as it would be with the fetch started without
\* waiting for _cache_lock (the shape get_fixtures has)
get_bootstrap_data_lock_unguarded(t) ==
    /\ pc[t] = "check"
    /\ op[t].fn = "get_bootstrap_data"
    /\ IF bootstrap_is_stale(t)
         THEN /\ cache_lock' = t
              /\ pc' = [pc EXCEPT ![t] = "fetch"]
              /\ fetch_start' = [fetch_start EXCEPT ![t] = clock]
              /\ fetched' = [fetched EXCEPT ![t] = TRUE]
         ELSE /\ pc' = [pc EXCEPT ![t] = "return"]
              /\ UNCHANGED <<cache_lock, fetch_start, fetched>>
    /\ UNCHANGED <<clock, CACHE_TTL, PLAYER_CACHE_TTL, FIXTURES_CACHE_TTL, cache,
                   player_cache, player_cache_meta, fixtures_cache, op, now,
                   ret, seen, calls, pvars>>

\* get_bootstrap_data, lines 69-72: take _cache_lock, test staleness, and
\* either start the fetch with the lock held or leave the with-block
get_bootstrap_data_lock(t) ==
    /\ pc[t] = "check"
    /\ op[t].fn = "get_bootstrap_data"
    /\ cache_lock = NoThread
    /\ IF bootstrap_is_stale(t)
         THEN /\ cache_lock' = t
              /\ pc' = [pc EXCEPT ![t] = "fetch"]
              /\ fetch_start' = [fetch_start EXCEPT ![t] = clock]
              /\ fetched' = [fetched EXCEPT ![t] = TRUE]
         ELSE /\ pc' = [pc EXCEPT ![t] = "return"]
              /\ UNCHANGED <<cache_lock, fetch_start, fetched>>
    /\ UNCHANGED <<clock, CACHE_TTL, PLAYER_CACHE_TTL, FIXTURES_CACHE_TTL, cache,
                   player_cache, player_cache_meta, fixtures_cache, op, now,
                   ret, seen, calls, pvars>>

\* lines 72-74: fetch_bootstrap_data() returns; store it and leave the lock
get_bootstrap_data_store(t, empty) ==
    /\ pc[t] = "fetch"
    /\ op[t].fn = "get_bootstrap_data"
    /\ cache' = [data |-> Body(empty, clock), timestamp |-> now[t]]
    /\ cache_lock' = NoThread
    /\ fetch_start' = [fetch_start EXCEPT ![t] = 0]
    /\ pc' = [pc EXCEPT ![t] = "return"]
    /\ UNCHANGED <<clock, CACHE_TTL, PLAYER_CACHE_TTL, FIXTURES_CACHE_TTL,
                   player_cache, player_cache_meta, fixtures_cache, op, now,
                   ret, fetched, seen, calls, pvars>>

\* line 72: fetch_bootstrap_data() raises; the with-block releases the lock
\* and the exception leaves get_bootstrap_data
get_bootstrap_data_raise(t) ==
    /\ pc[t] = "fetch"
    /\ op[t].fn = "get_bootstrap_data"
    /\ cache_lock' = NoThread
    /\ ret' = [ret EXCEPT ![t] = FetchFailed]
    /\ fetch_start' = [fetch_start EXCEPT ![t] = 0]
    /\ pc' = [pc EXCEPT ![t] = "failed"]
    /\ UNCHANGED <<clock, CACHE_TTL, PLAYER_CACHE_TTL, FIXTURES_CACHE_TTL, cache,
                   player_cache, player_cache_meta, fixtures_cache, op, now,
                   fetched, seen, calls, pvars>>

\* line 75: return _cache["data"], read outside the lock
get_bootstrap_data_return(t) ==
    /\ pc[t] = "return"
    /\ op[t].fn = "get_bootstrap_data"
    /\ ret' = [ret EXCEPT ![t] = cache.data]
    /\ pc' = [pc EXCEPT ![t] = "done"]
    /\ UNCHANGED <<clock, CACHE_TTL, PLAYER_CACHE_TTL, FIXTURES_CACHE_TTL, cache,
                   cache_lock, player_cache, player_cache_meta, fixtures_cache,
                   op, now, fetch_start, fetched, seen, calls, pvars>>

\* get_element_summary, line 87
element_summary_is_fresh(t) ==
    /\ Truthy(player_cache[op[t].player_id])
    /\ now[t] - player_cache_meta[op[t].player_id] < PLAYER_CACHE_TTL

\* get_element_summary, lines 84-89: the first with-block (nothing in it
\* blocks, so it is one step); return the cached value, or leave the lock
\* and start the fetch
get_element_summary_check(t) ==
    /\ pc[t] = "check"
    /\ op[t].fn = "get_element_summary"
    /\ IF element_summary_is_fresh(t)
         THEN /\ ret' = [ret EXCEPT ![t] = player_cache[op[t].player_id]]
              /\ pc' = [pc EXCEPT ![t] = "done"]
              /\ UNCHANGED <<fetch_start, fetched>>
         ELSE /\ pc' = [pc EXCEPT ![t] = "fetch"]
              /\ fetch_start' = [fetch_start EXCEPT ![t] = clock]
              /\ fetched' = [fetched EXCEPT ![t] = TRUE]
              /\ UNCHANGED ret
    /\ UNCHANGED <<clock, CACHE_TTL, PLAYER_CACHE_TTL, FIXTURES_CACHE_TTL, cache,
                   cache_lock, player_cache, player_cache_meta, fixtures_cache,
                   op, now, seen, calls, pvars>>

\* lines 89-93: fetch_element_summary(player_id) returns, the second
\* with-block stores the body under the caller's `now`, and the body is
\* returned
get_element_summary_store(t, empty) ==
    /\ pc[t] = "fetch"
    /\ op[t].fn = "get_element_summary"
    /\ player_cache' = [player_cache EXCEPT ![op[t].player_id] = Body(empty, clock)]
    /\ player_cache_meta' = [player_cache_meta EXCEPT ![op[t].player_id] = now[t]]
    /\ ret' = [ret EXCEPT ![t] = Body(empty, clock)]
    /\ fetch_start' = [fetch_start EXCEPT ![t] = 0]
    /\ pc' = [pc EXCEPT ![t] = "done"]
    /\ UNCHANGED <<clock, CACHE_TTL, PLAYER_CACHE_TTL, FIXTURES_CACHE_TTL, cache,
                   cache_lock, fixtures_cache, op, now, fetched, seen, calls,
                   pvars>>

\* line 89: fetch_element_summary(player_id) raises
get_element_summary_raise(t) ==
    /\ pc[t] = "fetch"
    /\ op[t].fn = "get_element_summary"
    /\ ret' = [ret EXCEPT ![t] = FetchFailed]
    /\ fetch_start' = [fetch_start EXCEPT ![t] = 0]
    /\ pc' = [pc EXCEPT ![t] = "failed"]
    /\ UNCHANGED <<clock, CACHE_TTL, PLAYER_CACHE_TTL, FIXTURES_CACHE_TTL, cache,
                   cache_lock, player_cache, player_cache_meta, fixtures_cache,
                   op, now, fetched, seen, calls, pvars>>

\* get_fixtures, line 102
fixtures_is_fresh(t) ==
    /\ Truthy(fixtures_cache.data)
    /\ now[t] - fixtures_cache.timestamp < FIXTURES_CACHE_TTL

\* get_fixtures, lines 99-104
get_fixtures_check(t) ==
    /\ pc[t] = "check"
    /\ op[t].fn = "get_fixtures"
    /\ IF fixtures_is_fresh(t)
         THEN /\ ret' = [ret EXCEPT ![t] = fixtures_cache.data]
              /\ pc' = [pc EXCEPT ![t] = "done"]
              /\ UNCHANGED <<fetch_start, fetched>>
         ELSE /\ pc' = [pc EXCEPT ![t] = "fetch"]
              /\ fetch_start' = [fetch_start EXCEPT ![t] = clock]
              /\ fetched' = [fetched EXCEPT ![t] = TRUE]
              /\ UNCHANGED ret
    /\ UNCHANGED <<clock, CACHE_TTL, PLAYER_CACHE_TTL, FIXTURES_CACHE_TTL, cache,
                   cache_lock, player_cache, player_cache_meta, fixtures_cache,
                   op, now, seen, calls, pvars>>

\* lines 104-108: fetch_fixtures() returns, is stored and returned
get_fixtures_store(t, empty) ==
    /\ pc[t] = "fetch"
    /\ op[t].fn = "get_fixtures"
    /\ fixtures_cache' = [data |-> Body(empty, clock), timestamp |-> now[t]]
    /\ ret' = [ret EXCEPT ![t] = Body(empty, clock)]
    /\ fetch_start' = [fetch_start EXCEPT ![t] = 0]
    /\ pc' = [pc EXCEPT ![t] = "done"]
    /\ UNCHANGED <<clock, CACHE_TTL, PLAYER_CACHE_TTL, FIXTURES_CACHE_TTL, cache,
                   cache_lock, player_cache, player_cache_meta, op, now,
                   fetched, seen, calls, pvars>>

\* get_fixtures_raise as it would be if a failed fetch reset the entry
get_fixtures_raise_clearing(t) ==
    /\ pc[t] = "fetch"
    /\ op[t].fn = "get_fixtures"
    /\ fixtures_cache' = [data |-> None, timestamp |-> 0]
    /\ ret' = [ret EXCEPT ![t] = FetchFailed]
    /\ fetch_start' = [fetch_start EXCEPT ![t] = 0]
    /\ pc' = [pc EXCEPT ![t] = "failed"]
    /\ UNCHANGED <<clock, CACHE_TTL, PLAYER_CACHE_TTL, FIXTURES_CACHE_TTL, cache,
                   cache_lock, player_cache, player_cache_meta, op, now,
                   fetched, seen, calls, pvars>>

\* line 104: fetch_fixtures() raises
get_fixtures_raise(t) ==
    /\ pc[t] = "fetch"
    /\ op[t].fn = "get_fixtures"
    /\ ret' = [ret EXCEPT ![t] = FetchFailed]
    /\ fetch_start' = [fetch_start EXCEPT ![t] = 0]
    /\ pc' = [pc EXCEPT ![t] = "failed"]
    /\ UNCHANGED <<clock, CACHE_TTL, PLAYER_CACHE_TTL, FIXTURES_CACHE_TTL, cache,
                   cache_lock, player_cache, player_cache_meta, fixtures_cache,
                   op, now, fetched, seen, calls, pvars>>

\* a thread that can do nothing at this clock reading: it is outside a call,
\* blocked on _cache_lock, or inside an http_get that has time left
Waiting(t) ==
    \/ Outside(t)
    \/ pc[t] = "check" /\ op[t].fn = "get_bootstrap_data" /\ cache_lock # NoThread
    \/ pc[t] = "fetch" /\ clock - fetch_start[t] < MaxFetch

\* time.time() advances
Tick(maxClock) ==
    /\ clock < maxClock
    /\ \A t \in Threads : Waiting(t)
    /\ clock' = clock + 1
    /\ UNCHANGED <<CACHE_TTL, PLAYER_CACHE_TTL, FIXTURES_CACHE_TTL, cache,
                   cache_lock, player_cache, player_cache_meta, fixtures_cache,
                   pc, op, now, fetch_start, ret, fetched, seen, calls, pvars>>

Next ==
    \/ Tick(MaxClock)
    \/ \E t \in Threads, o \in Ops : calls < MaxCalls /\ BeginCall(t, o)
    \/ \E t \in Threads : get_bootstrap_data_lock(t)
    \/ \E t \in Threads, e \in BOOLEAN : get_bootstrap_data_store(t, e)
    \/ \E t \in Threads : get_bootstrap_data_raise(t)
    \/ \E t \in Threads : get_bootstrap_data_return(t)
    \/ \E t \in Threads : get_element_summary_check(t)
    \/ \E t \in Threads, e \in BOOLEAN : get_element_summary_store(t, e)
    \/ \E t \in Threads : get_element_summary_raise(t)
    \/ \E t \in Threads : get_fixtures_check(t)
    \/ \E t \in Threads, e \in BOOLEAN : get_fixtures_store(t, e)
    \/ \E t \in Threads : get_fixtures_raise(t)

Spec == Init /\ [][Next]_vars

\* the same threads calling get_bootstrap_data only, over a longer run
NextDataset ==
    \/ Tick(MaxDatasetClock)
    \/ \E t \in Threads :
          calls < MaxDatasetCalls
          /\ BeginCall(t, [fn |-> "get_bootstrap_data", player_id |-> "-"])
    \/ \E t \in Threads : get_bootstrap_data_lock(t)
    \/ \E t \in Threads, e \in BOOLEAN : get_bootstrap_data_store(t, e)
    \/ \E t \in Threads : get_bootstrap_data_raise(t)
    \/ \E t \in Threads : get_bootstrap_data_return(t)

SpecDataset == Init /\ [][NextDataset]_vars

\* ------------------------------------------------------- cache properties
\* the staleness rule as the specification words it:
\* value absent, or now - last_fill_time > ttl
RuleStale(e, n, ttl) == e.data = None \/ n - e.timestamp > ttl

\* thread t is the only one that has ever called
Alone(t) == \A u \in Threads \ {t} : pc[u] = "idle"

\* C1: when two readers call the same cache while its entry is absent or
\* expired (both saw the same entry on entering, stale for both) and both
\* return a value, exactly one of them invoked the Fetcher and both return
\* the same, refreshed value.
C1_OneFetchPerRace ==
    \A t1, t2 \in Threads :
        ( /\ t1 # t2
          /\ pc[t1] = "done" /\ pc[t2] = "done"
          /\ op[t1] = op[t2]
          /\ seen[t1] = seen[t2]
          /\ RuleStale(seen[t1], now[t1], TTLOf(op[t1]))
          /\ RuleStale(seen[t2], now[t2], TTLOf(op[t2])) )
        => /\ fetched[t1] # fetched[t2]
           /\ ret[t1] = ret[t2]

\* C2: the second of two sequential calls, made while the entry filled by
\* the first (whatever body was stored, empty included) is younger than the
\* TTL, does not invoke the Fetcher.
C2_OneFetchWithinTTL ==
    \A t \in Threads :
        ( /\ pc[t] = "done"
          /\ Alone(t)
          /\ seen[t].data # None
          /\ now[t] - seen[t].timestamp < TTLOf(op[t]) )
        => ~fetched[t]

\* the three caches, as one value
AllCaches == <<cache, player_cache, player_cache_meta, fixtures_cache>>

\* C3: a call whose fetch fails raises the failure to its caller and writes
\* nothing: the step that fails leaves every cache entry as it was, no step
\* of a call that ends in failure has changed a cache, and with no other
\* caller around the entry after the failed call is the entry seen on
\* entering it.
C3_FailedRefreshKeepsEntry ==
    /\ [](\A t \in Threads :
            pc[t] = "failed" =>
                /\ ret[t] = FetchFailed
                /\ fetched[t]
                /\ (Alone(t) => Entry(op[t]) = seen[t]))
    /\ [][\A t \in Threads :
            (pc[t] = "fetch" /\ pc'[t] = "failed") => AllCaches' = AllCaches]_vars

\* C3 witness: a refresh of a filled entry has failed
C3_Witness ==
    \E t \in Threads :
        /\ pc[t] = "failed"
        /\ Alone(t)
        /\ seen[t].data # None
        /\ Entry(op[t]) = seen[t]

\* C4: a call that returns a value returns one that was stored at most
\* TTL + one fetch (the request timeout) before the moment it returns.
C4_BoundedStaleness ==
    [][\A t \in Threads :
         (pc[t] # "done" /\ pc'[t] = "done" /\ ret'[t].t = "body")
         => clock' - ret'[t].at <= TTLOf(op'[t]) + MaxFetch]_vars

\* C5: of the calls one caller makes one after the other, every call to a
\* cache whose TTL is zero invokes the Fetcher (also a call at the clock
\* reading of the previous fill), and a call to a cache with a positive TTL
\* made when the non-empty entry is exactly TTL old does not.
C5_ZeroTTLAndBoundary ==
    \A t \in Threads :
        (pc[t] = "done" /\ Alone(t)) =>
            /\ TTLOf(op[t]) = 0 => fetched[t]
            /\ ( /\ TTLOf(op[t]) > 0
                 /\ Truthy(seen[t].data)
                 /\ now[t] - seen[t].timestamp = TTLOf(op[t]) )
               => ~fetched[t]

JInt(n) == [t |-> "int", v |-> n]
JStr(s) == [t |-> "str", s |-> s]
JBool(b) == [t |-> "bool", b |-> b]
RECURSIVE FloatOf(_, _)
FloatOf(m, e) ==
    IF e > 0 /\ m % 10 = 0 THEN FloatOf(m \div 10, e - 1)
    ELSE [t |-> "float", m |-> m, e |-> e]
TypeError == [t |-> "TypeError"]
\* what a call did: it returned a value, or raised
Return(v) == [raised |-> "", value |-> v]
Raise(e) == [raised |-> e, value |-> None]
NotCalled == [raised |-> "not called", value |-> None]

\* dict.get(key, default)
Get(d, k, default) == IF k \in DOMAIN d THEN d[k] ELSE default

\* the dict d with d[k] = v
With(d, k, v) == [x \in DOMAIN d \cup {k} |-> IF x = k THEN v ELSE d[x]]

\* the dict d without key k
Without(d, k) == [x \in DOMAIN d \ {k} |-> d[x]]

Digits == {"0", "1", "2", "3", "4", "5", "6", "7", "8", "9"}
DigitVal(c) ==
    CASE c = "0" -> 0 [] c = "1" -> 1 [] c = "2" -> 2 [] c = "3" -> 3
      [] c = "4" -> 4 [] c = "5" -> 5 [] c = "6" -> 6 [] c = "7" -> 7
      [] c = "8" -> 8 [] c = "9" -> 9

\* does float(s) accept the str s (over the characters of Chars: digits,
\* the point, and a letter): digits with at most one point, one digit at least
FloatParses(s) ==
    /\ \A i \in 1 .. Len(s) : s[i] \in Digits \cup {"."}
    /\ Cardinality({i \in 1 .. Len(s) : s[i] = "."}) <= 1
    /\ \E i \in 1 .. Len(s) : s[i] \in Digits

\* the digits of s read as one integer, the point skipped
RECURSIVE Mantissa(_)
Mantissa(s) ==
    IF Len(s) = 0 THEN 0
    ELSE LET front == SubSeq(s, 1, Len(s) - 1)
             last == s[Len(s)]
         IN IF last = "." THEN Mantissa(front)
            ELSE Mantissa(front) * 10 + DigitVal(last)

\* the number of digits after the point
FractionDigits(s) ==
    IF \E i \in 1 .. Len(s) : s[i] = "."
      THEN Len(s) - (CHOOSE i \in 1 .. Len(s) : s[i] = ".")
      ELSE 0

\* float(s) of a str that parses
ParseFloat(s) == FloatOf(Mantissa(s), FractionDigits(s))

\* to_float, lines 112-119
to_float(value) ==
    IF value = None \/ value = JStr(<<>>) THEN FloatOf(0, 0)
    ELSE CASE value.t = "int" -> FloatOf(value.v, 0)
           [] value.t = "float" -> value
           [] value.t = "str" ->
                IF FloatParses(value.s) THEN ParseFloat(value.s)
                ELSE FloatOf(0, 0)
           [] OTHER -> FloatOf(0, 0)

\* x / 10 of Python: a float for a number, TypeError for None or a str
DivTen(x) ==
    CASE x.t = "int" -> FloatOf(x.v, 1)
      [] x.t = "float" -> FloatOf(x.m, x.e + 1)
      [] OTHER -> TypeError

\* POSITION_MAP, lines 33-38
POSITION_MAP ==
    [k \in 1 .. 4 |->
        CASE k = 1 -> JStr(<<"G">>) [] k = 2 -> JStr(<<"D">>)
          [] k = 3 -> JStr(<<"M">>) [] k = 4 -> JStr(<<"F">>)]

Unknown == JStr(<<"U">>)

\* the raw fields build_player_payload copies with player.get(key, 0)
CopiedFields == {"total_points", "minutes", "goals_scored", "assists", "clean_sheets"}

\* the raw fields it passes through to_float, by payload key
ToFloatFields ==
    [selected_by_percent |-> "selected_by_percent", form |-> "form",
     ict_index |-> "ict_index", influence |-> "influence",
     creativity |-> "creativity", threat |-> "threat",
     points_per_game |-> "points_per_game", value_form |-> "value_form",
     value_season |-> "value_season", expected_points_next |-> "ep_next",
     expected_points_this |-> "ep_this", expected_goals |-> "expected_goals",
     expected_assists |-> "expected_assists",
     expected_goal_involvements |-> "expected_goal_involvements",
     expected_goals_per_90 |-> "expected_goals_per_90",
     expected_assists_per_90 |-> "expected_assists_per_90",
     expected_goal_involvements_per_90 |-> "expected_goal_involvements_per_90"]

IdentityFields == {"id", "first_name", "second_name", "web_name"}

\* build_player_payload, lines 122-160: the payload, or the TypeError that
\* now_cost / 10 raises
build_player_payload(player, teams, short_names) ==
    LET team_id == player["team"]
        cost == DivTen(Get(player, "now_cost", JInt(0)))
        keys == IdentityFields \cup {"team", "team_short", "position", "now_cost"}
                  \cup CopiedFields \cup DOMAIN ToFloatFields
    IN IF cost = TypeError THEN Raise("TypeError")
       ELSE Return([k \in keys |->
               CASE k \in IdentityFields -> player[k]
                 [] k = "team" -> Get(teams, team_id, Unknown)
                 [] k = "team_short" -> Get(short_names, team_id, JStr(<<>>))
                 [] k = "position" ->
                      Get(POSITION_MAP, player["element_type"].v, Unknown)
                 [] k = "now_cost" -> cost
                 [] k \in CopiedFields -> Get(player, k, JInt(0))
                 [] OTHER -> to_float(Get(player, ToFloatFields[k], FloatOf(0, 0)))])

\* ---------------------------------------------- inputs of build_player_payload
MaxStrLen == 3
Chars == {"1", "5", ".", "x"}
Strs == UNION {[1 .. n -> Chars] : n \in 0 .. MaxStrLen}
RawValues == {None, JInt(0), JInt(55), FloatOf(25, 1)} \cup {JStr(s) : s \in Strs}

\* the raw key of every numeric field of the canonical schema
NumericRawFields ==
    CopiedFields \cup {"now_cost"} \cup {ToFloatFields[k] : k \in DOMAIN ToFloatFields}

\* the payload key a raw numeric field is written to
PayloadKey(f) ==
    IF f \in CopiedFields \cup {"now_cost"} THEN f
    ELSE CHOOSE k \in DOMAIN ToFloatFields : ToFloatFields[k] = f

\* a well-formed raw player: every numeric field a number
BasePlayer ==
    [k \in IdentityFields \cup {"team", "element_type"} \cup NumericRawFields |->
        CASE k = "id" -> JInt(7)
          [] k \in {"first_name", "second_name", "web_name"} -> JStr(<<"x">>)
          [] k = "team" -> 1
          [] k = "element_type" -> JInt(3)
          [] k = "now_cost" -> JInt(55)
          [] k \in CopiedFields -> JInt(5)
          [] OTHER -> JStr(<<"1", ".", "5">>)]

TeamNames == [i \in {1} |-> JStr(<<"x">>)]

\* BasePlayer with one numeric field replaced by a raw value, or left out
RawPlayers ==
    {With(BasePlayer, f, v) : f \in NumericRawFields, v \in RawValues}
    \cup {Without(BasePlayer, f) : f \in NumericRawFields}

InitPayload ==
    /\ CacheInit
    /\ CACHE_TTL = 0 /\ PLAYER_CACHE_TTL = 0 /\ FIXTURES_CACHE_TTL = 0
    /\ args \in RawPlayers
    /\ result = NotCalled

\* transform_players, line 305, on one raw player
CallBuildPlayerPayload ==
    /\ result = NotCalled
    /\ result' = build_player_payload(args, TeamNames, TeamNames)
    /\ UNCHANGED <<cvars, args>>

SpecPayload == InitPayload /\ [][CallBuildPlayerPayload]_vars

Zero(v) == v = JInt(0) \/ v = FloatOf(0, 0)

\* the raw values the coercion rule turns into zero: absent, null, "", and
\* a str that is no number
Unparseable(player, f) ==
    \/ f \notin DOMAIN player
    \/ player[f] = None
    \/ player[f].t = "str" /\ ~FloatParses(player[f].s)

\* C7: build_player_payload never raises; a numeric field whose raw value is
\* null, "" or a non-numeric str comes out 0 (or 0.0), a str that encodes a
\* number comes out as that number, and now_cost comes out divided by 10.
C7_NumericCoercion ==
    result # NotCalled =>
        /\ result.raised = ""
        /\ \A f \in NumericRawFields :
              LET out == result.value[PayloadKey(f)]
              IN /\ Unparseable(args, f) => Zero(out)
                 /\ (f # "now_cost" /\ ~Unparseable(args, f) /\ args[f].t = "str")
                       => out = ParseFloat(args[f].s)
                 /\ (f = "now_cost" /\ ~Unparseable(args, f))
                       => out = DivTen(to_float(args[f]))

\* ---------------------------------------------------------------- sorting
\* list.sort / sorted over int keys: stable, ascending.  Items are [k, x]
\* pairs, k the key of item x.
InsertStable(sorted, p) ==
    LET n == Cardinality({i \in 1 .. Len(sorted) : sorted[i].k <= p.k})
    IN SubSeq(sorted, 1, n) \o <<p>> \o SubSeq(sorted, n + 1, Len(sorted))

RECURSIVE StableSortAsc(_)
StableSortAsc(pairs) ==
    IF Len(pairs) = 0 THEN <<>>
    ELSE InsertStable(StableSortAsc(SubSeq(pairs, 1, Len(pairs) - 1)),
                      pairs[Len(pairs)])

Reverse(seq) == [i \in 1 .. Len(seq) |-> seq[Len(seq) + 1 - i]]

\* seq[:n]
Slice(seq, n) == SubSeq(seq, 1, IF Len(seq) < n THEN Len(seq) ELSE n)

\* items.sort(key=...) where keys[i] is the key of items[i], an int or None:
\* the `<` of two keys raises TypeError as soon as one of them is None, and
\* a sort of two or more items compares every key at least once
SortByJsonKey(items, keys) ==
    IF Len(items) >= 2 /\ \E i \in 1 .. Len(items) : keys[i].t # "int"
      THEN Raise("TypeError")
      ELSE LET pairs == [i \in 1 .. Len(items) |->
                           [k |-> IF keys[i].t = "int" THEN keys[i].v ELSE 0,
                            x |-> items[i]]]
               sorted == StableSortAsc(pairs)
           IN Return([i \in 1 .. Len(items) |-> sorted[i].x])

\* ------------------------------------------- build_player_history_payload
EmptyDict == [x \in {} |-> None]

\* team_lookup.get(entry.get("opponent_team"), {})
OpponentOf(team_lookup, entry) ==
    LET id == Get(entry, "opponent_team", None)
    IN IF id.t = "int" /\ id.v \in DOMAIN team_lookup THEN team_lookup[id.v]
       ELSE EmptyDict

\* lines 386-405: one history item, or the TypeError of value / 10
HistoryItem(entry, team_lookup) ==
    LET opponent == OpponentOf(team_lookup, entry)
        value == DivTen(Get(entry, "value", JInt(0)))
    IN IF value = TypeError THEN TypeError
       ELSE [event |-> Get(entry, "round", None),
             total_points |-> Get(entry, "total_points", JInt(0)),
             expected_points |-> to_float(Get(entry, "expected_points", FloatOf(0, 0))),
             expected_goal_involvements |->
                 to_float(Get(entry, "expected_goal_involvements", FloatOf(0, 0))),
             expected_goals |-> to_float(Get(entry, "expected_goals", FloatOf(0, 0))),
             expected_assists |-> to_float(Get(entry, "expected_assists", FloatOf(0, 0))),
             minutes |-> Get(entry, "minutes", JInt(0)),
             goals_scored |-> Get(entry, "goals_scored", JInt(0)),
             assists |-> Get(entry, "assists", JInt(0)),
             value |-> value,
             ict_index |-> to_float(Get(entry, "ict_index", FloatOf(0, 0))),
             was_home |-> Get(entry, "was_home", JBool(FALSE)),
             kickoff_time |-> Get(entry, "kickoff_time", None),
             difficulty |-> Get(entry, "difficulty", None),
             opponent |-> Get(opponent, "name", None),
             opponent_short |-> Get(opponent, "short_name", None)]

\* lines 410-419: one upcoming item; `a or b` is b when a is None or ""
UpcomingItem(entry, team_lookup) ==
    LET opponent == OpponentOf(team_lookup, entry)
        name == Get(opponent, "name", None)
    IN [event |-> Get(entry, "event", None),
        difficulty |-> Get(entry, "difficulty", None),
        is_home |-> Get(entry, "is_home", JBool(FALSE)),
        kickoff_time |-> Get(entry, "kickoff_time", None),
        opponent |-> IF name = None \/ name = JStr(<<>>)
                       THEN Get(entry, "opponent", None) ELSE name,
        opponent_short |-> Get(opponent, "short_name", None)]

\* item.get("event", default): every item built above has the key "event",
\* so the default is never used and an unset round id gives the key None
EventKey(item, default) == Get(item, "event", default)

\* build_player_history_payload, lines 378-427
build_player_history_payload(summary, team_lookup) ==
    LET history == Get(summary, "history", <<>>)
        fixtures == Get(summary, "fixtures", <<>>)
        history_payload ==
            [i \in 1 .. Len(history) |-> HistoryItem(history[i], team_lookup)]
        upcoming_payload ==
            [i \in 1 .. Len(fixtures) |-> UpcomingItem(fixtures[i], team_lookup)]
    IN IF \E i \in 1 .. Len(history) : history_payload[i] = TypeError
         THEN Raise("TypeError")
         ELSE LET h == SortByJsonKey(history_payload,
                         [i \in 1 .. Len(history) |->
                             EventKey(history_payload[i], JInt(0))])
                  u == SortByJsonKey(upcoming_payload,
                         [i \in 1 .. Len(fixtures) |->
                             EventKey(upcoming_payload[i], JInt(99))])
              IN IF h.raised # "" \/ u.raised # "" THEN Raise("TypeError")
                 ELSE Return([history |-> h.value, upcoming |-> u.value])

\* ------------------------------- inputs of build_player_history_payload
MaxEntries == 2
RoundIds == {JInt(1), JInt(2)}

TeamLookup == [i \in {1} |-> [name |-> JStr(<<"A">>), short_name |-> JStr(<<"A">>)]]

BaseHistoryEntry ==
    [k \in {"total_points", "value", "opponent_team", "expected_points"} |->
        CASE k = "total_points" -> JInt(2)
          [] k = "value" -> JInt(55)
          [] k = "opponent_team" -> JInt(1)
          [] OTHER -> JStr(<<"1", ".", "5">>)]

BaseFixtureEntry ==
    [k \in {"difficulty", "is_home", "opponent_team"} |->
        CASE k = "difficulty" -> JInt(2)
          [] k = "is_home" -> JBool(TRUE)
          [] OTHER -> JInt(1)]

\* an entry with its round id set, null, or missing
HistoryEntries ==
    {With(BaseHistoryEntry, "round", r) : r \in RoundIds \cup {None}}
    \cup {BaseHistoryEntry}
FixtureEntries ==
    {With(BaseFixtureEntry, "event", r) : r \in RoundIds \cup {None}}
    \cup {BaseFixtureEntry}

ListsOf(S, n) == UNION {[1 .. m -> S] : m \in 0 .. n}

Summaries ==
    {[history |-> h, fixtures |-> f] :
        h \in ListsOf(HistoryEntries, MaxEntries),
        f \in ListsOf(FixtureEntries, MaxEntries)}

InitHistory ==
    /\ CacheInit
    /\ CACHE_TTL = 0 /\ PLAYER_CACHE_TTL = 0 /\ FIXTURES_CACHE_TTL = 0
    /\ args \in Summaries
    /\ result = NotCalled

\* api_player_history, line 477
CallBuildPlayerHistoryPayload ==
    /\ result = NotCalled
    /\ result' = build_player_history_payload(args, TeamLookup)
    /\ UNCHANGED <<cvars, args>>

SpecHistory == InitHistory /\ [][CallBuildPlayerHistoryPayload]_vars

\* the round id an item is ordered by: its own, or `unset` when it has none
OrderKey(item, unset) == IF item.event.t = "int" THEN item.event.v ELSE unset

Ascending(items, unset) ==
    \A i, j \in 1 .. Len(items) :
        i < j => OrderKey(items[i], unset) <= OrderKey(items[j], unset)

\* C6: build_player_history_payload returns, for every payload; the history
\* it returns ascends by round id with an entry without round id ordered as
\* round 0, and the upcoming list ascends with an unset round id ordered last.
C6_ChronologicalOrder ==
    result # NotCalled =>
        /\ result.raised = ""
        /\ Len(result.value.history) = Len(args.history)
        /\ Len(result.value.upcoming) = Len(args.fixtures)
        /\ Ascending(result.value.history, 0)
        /\ Ascending(result.value.upcoming, 99)

\* ------------------------------------------------ build_upcoming_fixtures
\* A lookup table {team id: name} keeps its insertion order: it is a
\* sequence of [id, name] pairs with distinct ids.  A team name is a str of
\* capital letters.
TableIds(table) == {table[i].id : i \in 1 .. Len(table)}
TableGet(table, id, default) ==
    IF id \in TableIds(table)
      THEN table[CHOOSE i \in 1 .. Len(table) : table[i].id = id].name
      ELSE default

\* the place of a str among strs of at most two capital letters in the
\* order of Python's `<` on str ("" first, a prefix before its extensions)
LetterCode(c) == CASE c = "A" -> 1 [] c = "B" -> 2 [] c = "C" -> 3
StrOrder(name) ==
    CASE Len(name.s) = 0 -> 0
      [] Len(name.s) = 1 -> LetterCode(name.s[1]) * 4
      [] OTHER -> LetterCode(name.s[1]) * 4 + LetterCode(name.s[2])

\* bool(x) of a JSON flag: absent (None) and false are falsy
Flag(x) == x.t = "bool" /\ x.b

\* lines 319-330: the fixtures the loop does not skip
Kept(fixture) ==
    /\ Get(fixture, "event", None) # None
    /\ ~(Flag(Get(fixture, "finished", None))
           \/ Flag(Get(fixture, "finished_provisional", None)))
    /\ Get(fixture, "team_h", None) # None
    /\ Get(fixture, "team_a", None) # None

\* lines 332-351: the two directional records of a kept fixture
HomeMatch(fixture, team_names, short_names) ==
    [event |-> fixture["event"],
     opponent |-> TableGet(team_names, fixture["team_a"].v, JStr(<<>>)),
     opponent_short |-> TableGet(short_names, fixture["team_a"].v, JStr(<<>>)),
     difficulty |-> Get(fixture, "team_h_difficulty", None),
     was_home |-> JBool(TRUE),
     kickoff_time |-> Get(fixture, "kickoff_time", None)]

AwayMatch(fixture, team_names, short_names) ==
    [event |-> fixture["event"],
     opponent |-> TableGet(team_names, fixture["team_h"].v, JStr(<<>>)),
     opponent_short |-> TableGet(short_names, fixture["team_h"].v, JStr(<<>>)),
     difficulty |-> Get(fixture, "team_a_difficulty", None),
     was_home |-> JBool(FALSE),
     kickoff_time |-> Get(fixture, "kickoff_time", None)]

\* lines 316-351: `grouped` after the first n fixtures, a Return of the
\* dict team id -> matches, or the KeyError of grouped[home_team] /
\* grouped[away_team] for a team id that is not a key of team_names
RECURSIVE Grouped(_, _, _, _)
Grouped(fixtures, n, team_names, short_names) ==
    IF n = 0 THEN Return([id \in TableIds(team_names) |-> <<>>])
    ELSE LET before == Grouped(fixtures, n - 1, team_names, short_names)
             fixture == fixtures[n]
         IN IF before.raised # "" \/ ~Kept(fixture) THEN before
            ELSE LET h == fixture["team_h"].v
                     a == fixture["team_a"].v
                     g == before.value
                 IN IF h \notin DOMAIN g \/ a \notin DOMAIN g
                      THEN Raise("KeyError")
                      ELSE LET g1 == [g EXCEPT ![h] =
                                         Append(@, HomeMatch(fixture, team_names, short_names))]
                           IN Return([g1 EXCEPT ![a] =
                                         Append(@, AwayMatch(fixture, team_names, short_names))])

\* average(...) of lines 361-363 (and 163-166): the exact quotient of the
\* sum of the difficulties that are set by their number, 0.0 when none is
AverageDifficulty(matches) ==
    LET rated == {i \in 1 .. Len(matches) : matches[i].difficulty # None}
        Sum[S \in SUBSET rated] ==
            IF S = {} THEN 0
            ELSE LET i == CHOOSE j \in S : TRUE
                 IN matches[i].difficulty.v + Sum[S \ {i}]
    IN IF rated = {} THEN FloatOf(0, 0)
       ELSE [t |-> "quotient", num |-> Sum[rated], den |-> Cardinality(rated)]

\* lines 354-372: the group of one team
Group(team_id, matches, team_names, short_names, limit) ==
    LET pairs == [i \in 1 .. Len(matches) |->
                     [k |-> matches[i].event.v, x |-> matches[i]]]
        sorted == StableSortAsc(pairs)
        trimmed == Slice([i \in 1 .. Len(matches) |-> sorted[i].x], limit)
    IN [team_id |-> team_id,
        team |-> TableGet(team_names, team_id, JStr(<<>>)),
        team_short |-> TableGet(short_names, team_id, JStr(<<>>)),
        fixtures |-> trimmed,
        average_difficulty |-> AverageDifficulty(trimmed)]

\* lines 353-372: the groups of the first n teams of the table, in its order
RECURSIVE Upcoming(_, _, _, _, _)
Upcoming(grouped, n, team_names, short_names, limit) ==
    IF n = 0 THEN <<>>
    ELSE LET before == Upcoming(grouped, n - 1, team_names, short_names, limit)
             team_id == team_names[n].id
             matches == grouped[team_id]
         IN IF Len(matches) = 0 \/ limit <= 0 THEN before
            ELSE Append(before,
                        Group(team_id, matches, team_names, short_names, limit))

\* build_upcoming_fixtures, lines 309-375
build_upcoming_fixtures(fixtures, team_names, short_names, limit) ==
    LET grouped == Grouped(fixtures, Len(fixtures), team_names, short_names)
    IN IF grouped.raised # "" THEN grouped
       ELSE LET upcoming == Upcoming(grouped.value, Len(team_names),
                                     team_names, short_names, limit)
                pairs == [i \in 1 .. Len(upcoming) |->
                             [k |-> StrOrder(upcoming[i].team), x |-> upcoming[i]]]
                sorted == StableSortAsc(pairs)
            IN Return([i \in 1 .. Len(upcoming) |-> sorted[i].x])

\* ------------------------------------- inputs of build_upcoming_fixtures
MaxFixtures == 2
\* `limit` of line 313
DefaultLimit == 5

\* the lookup tables of a bootstrap with teams 2 and 1; team 3 is in no table
FixtureTeamNames ==
    <<[id |-> 2, name |-> JStr(<<"A">>)], [id |-> 1, name |-> JStr(<<"B">>)]>>
FixtureShortNames ==
    <<[id |-> 2, name |-> JStr(<<"A">>)], [id |-> 1, name |-> JStr(<<"B">>)]>>
FixtureTeamIds == {None, JInt(1), JInt(2), JInt(3)}

FixtureRecords ==
    {[event |-> e, finished |-> JBool(f), finished_provisional |-> JBool(p),
      team_h |-> h, team_a |-> a,
      team_h_difficulty |-> JInt(2), team_a_difficulty |-> JInt(4)] :
        e \in RoundIds \cup {None}, f \in BOOLEAN, p \in BOOLEAN,
        h \in FixtureTeamIds, a \in FixtureTeamIds}

InitFixtures ==
    /\ CacheInit
    /\ CACHE_TTL = 0 /\ PLAYER_CACHE_TTL = 0 /\ FIXTURES_CACHE_TTL = 0
    /\ args \in [fixtures : ListsOf(FixtureRecords, MaxFixtures),
                 limit : {1, DefaultLimit}]
    /\ result = NotCalled

\* api_fixtures_upcoming, line 491 (which leaves `limit` at its default)
CallBuildUpcomingFixtures ==
    /\ result = NotCalled
    /\ result' = build_upcoming_fixtures(args.fixtures, FixtureTeamNames,
                                         FixtureShortNames, args.limit)
    /\ UNCHANGED <<cvars, args>>

SpecFixtures == InitFixtures /\ [][CallBuildUpcomingFixtures]_vars

\* the filtering rule: a round id is assigned and neither finished flag is set
Eligible(fixture) ==
    /\ fixture.event # None
    /\ ~fixture.finished.b
    /\ ~fixture.finished_provisional.b

\* the team ids of the table that are a side of an eligible fixture
TeamsWithEligible(fixtures, team_names) ==
    {id \in TableIds(team_names) :
        \E i \in 1 .. Len(fixtures) :
            /\ Eligible(fixtures[i])
            /\ JInt(id) \in {fixtures[i].team_h, fixtures[i].team_a}}

\* C8: build_upcoming_fixtures returns exactly one group for each team of
\* the lookup table that is a side of an eligible fixture and none for any
\* other team, and every match of a group comes from an eligible fixture.
C8_GroupsOfEligibleTeams ==
    result # NotCalled =>
        /\ result.raised = ""
        /\ LET groups == result.value
               wanted == TeamsWithEligible(args.fixtures, FixtureTeamNames)
           IN /\ {groups[i].team_id : i \in 1 .. Len(groups)} = wanted
              /\ Len(groups) = Cardinality(wanted)
              /\ \A i \in 1 .. Len(groups) :
                    \A m \in 1 .. Len(groups[i].fixtures) :
                        \E j \in 1 .. Len(args.fixtures) :
                            /\ Eligible(args.fixtures[j])
                            /\ args.fixtures[j].event = groups[i].fixtures[m].event
                            /\ JInt(groups[i].team_id) =
                                  IF groups[i].fixtures[m].was_home.b
                                    THEN args.fixtures[j].team_h
                                    ELSE args.fixtures[j].team_a

\* ------------------------------------------------------ summarise_players
\* the length of the [:5] slices of lines 177-188
TopN == 5

\* the pre-reversal left out: equal keys come out in reverse input order
SortedDescendingUnstable(pairs) == Reverse(StableSortAsc(pairs))

\* sorted(..., reverse=True): CPython reverses the list, sorts it stably in
\* ascending order and reverses the result, which keeps equal keys in their
\* input order
SortedDescending(pairs) == Reverse(StableSortAsc(Reverse(pairs)))

\* sorted(player_list, key=lambda p: p[key], reverse=True)[:5]
TopBy(player_list, key) ==
    LET pairs == [i \in 1 .. Len(player_list) |->
                     [k |-> player_list[i][key], x |-> player_list[i]]]
        sorted == SortedDescending(pairs)
    IN Slice([i \in 1 .. Len(player_list) |-> sorted[i].x], TopN)

\* the key each top-5 view of the summary is ranked by
ViewKeys ==
    [top_by_points |-> "total_points", top_by_form |-> "form",
     top_by_value |-> "value_form",
     top_expected_points |-> "expected_points_next",
     top_expected_goals |-> "expected_goals",
     top_expected_assists |-> "expected_assists"]

\* summarise_players, lines 174-188 and 281-286: the six top-5 views
summarise_players(player_list) ==
    [view \in DOMAIN ViewKeys |-> TopBy(player_list, ViewKeys[view])]

\* ------------------------------------------- inputs of summarise_players
MaxPlayers == 6
KeyValues == {0, 1}

\* a canonical entity: its id is its place in the input, its six ranking
\* keys are built from two values so that the views rank one list in
\* different orders, with ties in every view
Player(i, x, y) ==
    [id |-> i, total_points |-> x, form |-> y, value_form |-> x + y,
     expected_points_next |-> 1 + x - y, expected_goals |-> 1 - x,
     expected_assists |-> 1 - y]

PlayerLists ==
    {[i \in 1 .. n |-> Player(i, xs[i], ys[i])] :
        <<n, xs, ys>> \in
            UNION {{<<m, a, b>> : a \in [1 .. m -> KeyValues],
                                  b \in [1 .. m -> KeyValues]} :
                      m \in 0 .. MaxPlayers}}

InitSummary ==
    /\ CacheInit
    /\ CACHE_TTL = 0 /\ PLAYER_CACHE_TTL = 0 /\ FIXTURES_CACHE_TTL = 0
    /\ args \in PlayerLists
    /\ result = NotCalled

\* api_summary, line 458
CallSummarisePlayers ==
    /\ result = NotCalled
    /\ result' = Return(summarise_players(args))
    /\ UNCHANGED <<cvars, args>>

SpecSummary == InitSummary /\ [][CallSummarisePlayers]_vars

Min(a, b) == IF a < b THEN a ELSE b

\* one top-5 view of `players`, ranked by `key`, is as C9 says
GoodView(view, players, key) ==
    LET ids == {view[i].id : i \in 1 .. Len(view)}
    IN /\ Len(view) = Min(TopN, Len(players))
       /\ \A i \in 1 .. Len(view) : players[view[i].id] = view[i]
       /\ Cardinality(ids) = Len(view)
       /\ \A i, j \in 1 .. Len(view) :
             i < j =>
                /\ view[i][key] >= view[j][key]
                /\ view[i][key] = view[j][key] => view[i].id < view[j].id
       /\ \A i \in 1 .. Len(view) :
             \A p \in 1 .. Len(players) :
                p \notin ids => view[i][key] >= players[p][key]

\* C9: every top-5 view of summarise_players has min(5, n) entries of the
\* input, in non-increasing order of its key, none with a smaller key than
\* an omitted entity, entities with equal keys in their input order.
C9_TopFiveViews ==
    result # NotCalled =>
        \A view \in DOMAIN ViewKeys :
            GoodView(result.value[view], args, ViewKeys[view])

\* C9 witness: a list of more than five entities was ranked, and the view by
\* points had to cut a tie and kept the tied entities in input order
C9_Witness ==
    /\ result # NotCalled
    /\ Len(args) > TopN
    /\ LET view == result.value["top_by_points"]
       IN /\ Len(view) = TopN
          /\ view[TopN - 1].total_points = view[TopN].total_points
          /\ \E p \in 1 .. Len(args) :
                /\ p \notin {view[i].id : i \in 1 .. Len(view)}
                /\ args[p].total_points = view[TopN].total_points

====
